---- MODULE Spec2Model ----
(***************************************************************************)
(* Support ticket resolution graph: classify -> retrieve -> draft ->       *)
(* review -> {approved | retry | escalate}.  The record threaded through   *)
(* the graph is a Python dict; its values are modelled as                  *)
(*   None      the Python None                                             *)
(*   Some(v)   any other Python value v                                    *)
(* and a key that the dict does not hold is a key outside DOMAIN state.    *)
(* Texts are sequences of (lower-cased) words.                             *)
(***************************************************************************)
EXTENDS Integers, Sequences, FiniteSets, TLC

VARIABLES
    state,      \* the SupportTicketState record of the run
    pc,         \* the node of the graph that runs next, or how the run ended
    caller,     \* which caller builds the initial record
    ticket,     \* the (subject, description) the caller was given
    apiKey,     \* whether GROQ_API_KEY is set in the environment
    initial,    \* the caller's initial_state, as handed to graph.invoke
    decision,   \* the last value check_max_attempts returned
    reviews,    \* how many times the Review collaborator was called
    returned,   \* what the caller got back from its call, None before that
    path,       \* the nodes the run executed, with what each handed on
    csv_file,   \* escalation_log.csv: None while it does not exist, else its rows
    fsOk,       \* whether escalation_log.csv can be opened for writing
    escalations,\* the calls of escalation_node_with_logging in progress
    pair,       \* the records of the runs that share the compiled graph
    script      \* what the collaborators answer to each of those runs

\* one run of the graph
runVars == <<state, pc, caller, ticket, apiKey, initial, decision, reviews, returned, path>>

\* the escalation log and the calls that write it
logVars == <<csv_file, fsOk, escalations>>

\* the concurrent runs of one compiled graph
pairVars == <<pair, script>>

vars == <<state, pc, caller, ticket, apiKey, initial, decision, reviews, returned, path, csv_file, fsOk, escalations, pair, script>>

(***************************** Python values *******************************)

None == <<>>

Some(v) == <<v>>

Val(x) == x[1]

\* dict.get(key, default): the default is used only when the key is absent;
\* a key stored with None yields None.
Get(s, k, d) == IF k \in DOMAIN s THEN s[k] ELSE d

\* Python truthiness of a stored boolean-or-None
Truthy(x) == x # None /\ Val(x) = TRUE

EmptyDict == [k \in {} |-> None]

(********************************* bounds **********************************)

\* largest draft_attempt fed to the routing policy when it is table-tested
MaxAttemptInput == 4

\* how many calls of escalation_node_with_logging run concurrently
MaxDocs == 3

MaxLines == 3

NumEscalations == 3

(**************************** state schema *********************************)

SchemaKeys ==
    {"subject", "description", "classification", "retrieved_context",
     "formatted_context", "retrieval_attempt", "draft_response",
     "review_passed", "reviewer_feedback", "draft_attempt",
     "max_attempts_reached", "escalated"}

\* A node's partial update is written to the channels of the state schema;
\* keys the schema does not declare are not channels and are not stored.
Merge(s, upd) ==
    [k \in (DOMAIN s) \cup ((DOMAIN upd) \cap SchemaKeys) |->
        IF k \in DOMAIN upd THEN upd[k] ELSE s[k]]

\* a node that raised: the exception leaves graph.invoke
Raised == [exception |-> TRUE]

IsRaised(upd) == "exception" \in DOMAIN upd

(***************************** input domains *******************************)

Categories == {"billing", "technical", "security", "general"}

Tickets ==
    { [subject |-> <<"refund">>, description |-> <<"charged", "twice">>],
      [subject |-> <<"login">>,  description |-> <<"password", "reset">>],
      [subject |-> <<>>,         description |-> <<"hello">>] }

Callers ==
    {"api", "main", "test_complete_pipeline", "test_retry_mechanism",
     "test_rag", "test_groq"}

(************************** callers' initial record ************************)

\* main.py create_initial_state: every workflow field stored as None
MainInitialState(subject, description) ==
    [k \in SchemaKeys |->
        IF k = "subject" THEN Some(subject)
        ELSE IF k = "description" THEN Some(description)
        ELSE None]

\* api.py create_initial_state: both attempt counters stored as 1
ApiInitialState(subject, description) ==
    [k \in SchemaKeys |->
        IF k = "subject" THEN Some(subject)
        ELSE IF k = "description" THEN Some(description)
        ELSE IF k \in {"retrieval_attempt", "draft_attempt"} THEN Some(1)
        ELSE None]

\* test_full_pipeline.py: the literal dicts of both pipeline tests
PipelineTestInitialState(subject, description) ==
    [k \in SchemaKeys |->
        IF k = "subject" THEN Some(subject)
        ELSE IF k = "description" THEN Some(description)
        ELSE None]

\* test_rag,.py: a partial dict, the draft and review keys are absent
RagTestInitialState(subject, description) ==
    [k \in {"subject", "description", "classification", "retrieved_context",
            "formatted_context", "retrieval_attempt"} |->
        IF k = "subject" THEN Some(subject)
        ELSE IF k = "description" THEN Some(description)
        ELSE None]

\* test_groq_integration.py: a partial dict with draft_response
GroqTestInitialState(subject, description) ==
    [k \in {"subject", "description", "classification", "retrieved_context",
            "formatted_context", "retrieval_attempt", "draft_response"} |->
        IF k = "subject" THEN Some(subject)
        ELSE IF k = "description" THEN Some(description)
        ELSE None]

create_initial_state(c, subject, description) ==
    CASE c = "api"  -> ApiInitialState(subject, description)
      [] c = "main" -> MainInitialState(subject, description)
      [] c \in {"test_complete_pipeline", "test_retry_mechanism"} ->
                       PipelineTestInitialState(subject, description)
      [] c = "test_rag"  -> RagTestInitialState(subject, description)
      [] c = "test_groq" -> GroqTestInitialState(subject, description)

\* str.strip() leaves nothing: the text has no word
Blank(text) == Len(text) = 0

\* What each caller checks before it calls graph.invoke.
\*   api: subject and description are not blank, else HTTP 400
\*   main, test_complete_pipeline, test_groq: GROQ_API_KEY is set, else return;
\*   their tickets are the sample tickets or non-empty console input
CallerInvokes(c, t) ==
    CASE c = "api" -> ~(Blank(t.subject) \/ Blank(t.description))
      [] c \in {"main", "test_complete_pipeline", "test_groq"} ->
            apiKey /\ ~Blank(t.subject) /\ ~Blank(t.description)
      [] OTHER -> ~Blank(t.subject) /\ ~Blank(t.description)

(****************************** retrieval **********************************)

ToSet(seq) == {seq[i] : i \in DOMAIN seq}

Min(a, b) == IF a <= b THEN a ELSE b

\* The knowledge base: four documents per category, in file order.  words is
\* the set f"{title} {content}".lower().split() restricted to the model's
\* vocabulary.
KNOWLEDGE_BASE ==
    [billing |->
        << [title |-> "Payment Method Issues", content |-> "billing-1",
            words |-> {"payment", "method", "issues", "card"}],
           [title |-> "Refund Policy", content |-> "billing-2",
            words |-> {"refund", "policy", "request"}],
           [title |-> "Subscription Management", content |-> "billing-3",
            words |-> {"subscription", "management", "cancel"}],
           [title |-> "Invoice Questions", content |-> "billing-4",
            words |-> {"invoice", "questions", "email"}] >>,
     technical |->
        << [title |-> "Login Issues", content |-> "technical-1",
            words |-> {"login", "issues", "password", "email"}],
           [title |-> "Mobile App Crashes", content |-> "technical-2",
            words |-> {"mobile", "app", "crashes"}],
           [title |-> "API Integration", content |-> "technical-3",
            words |-> {"api", "integration", "key"}],
           [title |-> "Browser Compatibility", content |-> "technical-4",
            words |-> {"browser", "compatibility"}] >>,
     security |->
        << [title |-> "Password Reset", content |-> "security-1",
            words |-> {"password", "reset", "login", "email"}],
           [title |-> "Two-Factor Authentication", content |-> "security-2",
            words |-> {"two-factor", "authentication", "security"}],
           [title |-> "Suspicious Activity", content |-> "security-3",
            words |-> {"suspicious", "activity", "password", "login"}],
           [title |-> "Data Privacy", content |-> "security-4",
            words |-> {"data", "privacy", "policy"}] >>,
     general |->
        << [title |-> "Support Hours", content |-> "general-1",
            words |-> {"support", "hours", "issues"}],
           [title |-> "Feature Requests", content |-> "general-2",
            words |-> {"feature", "requests", "feedback"}],
           [title |-> "Account Deletion", content |-> "general-3",
            words |-> {"account", "deletion", "data"}],
           [title |-> "Getting Started Guide", content |-> "general-4",
            words |-> {"getting", "started", "guide"}] >> ]

\* overlap of the query words with the document's words.  The code divides
\* the overlap by len(query_words), the same divisor for every document of
\* the call (and scores 0 when the query is empty), so the ranking is the
\* ranking by overlap.
Score(doc, query_words) == Cardinality(query_words \cap doc.words)

\* scored_docs.sort(key=score, reverse=True): stable, so documents of equal
\* score keep the knowledge base's order.  Position of document i afterwards:
SortedPosition(docs, query_words, i) ==
    1 + Cardinality({j \in DOMAIN docs :
            \/ Score(docs[j], query_words) > Score(docs[i], query_words)
            \/ /\ Score(docs[j], query_words) = Score(docs[i], query_words)
               /\ j < i})

SortByScore(docs, query_words) ==
    [p \in DOMAIN docs |->
        docs[CHOOSE i \in DOMAIN docs : SortedPosition(docs, query_words, i) = p]]

\* how many documents an attempt gets; attempt is Some(n) or None
NumDocs(attempt, total) ==
    IF attempt = Some(1) THEN 2
    ELSE IF attempt = Some(2) THEN 3
    ELSE total

\* RAGRetriever.retrieve_context; classification is a category name, the
\* texts are word sequences, reviewer_feedback and attempt are Some(..)/None
retrieve_context(classification, subject, description, reviewer_feedback, attempt) ==
    LET category == IF classification \in DOMAIN KNOWLEDGE_BASE
                    THEN classification ELSE "general"
        query_words == ToSet(subject) \cup ToSet(description) \cup
                       (IF reviewer_feedback # None /\ Len(Val(reviewer_feedback)) > 0
                        THEN ToSet(Val(reviewer_feedback)) ELSE {})
        scored_docs == SortByScore(KNOWLEDGE_BASE[category], query_words)
        num_docs    == NumDocs(attempt, Len(scored_docs))
        selected    == SubSeq(scored_docs, 1, Min(num_docs, Len(scored_docs)))
    IN  [i \in DOMAIN selected |->
            [title |-> selected[i].title, content |-> selected[i].content]]

\* Mutant: the entries are numbered from 0
format_context_for_prompt_from_zero(documents) ==
    IF Len(documents) = 0 THEN <<"No relevant documentation found.">>
    ELSE <<"Relevant Documentation:">> \o
         [i \in DOMAIN documents |->
            <<i - 1, documents[i].title, documents[i].content>>]

NoDocumentation == <<"No relevant documentation found.">>

\* RAGRetriever.format_context_for_prompt: the header, then one numbered
\* entry (number, title, content) per document
format_context_for_prompt(documents) ==
    IF Len(documents) = 0 THEN NoDocumentation
    ELSE <<"Relevant Documentation:">> \o
         [i \in DOMAIN documents |->
            <<i, documents[i].title, documents[i].content>>]

(***************************** classification ******************************)

\* what TicketClassifier.classify_ticket does for a ticket: a category, or
\* an exception
ClassifierResults == Categories \cup {"raise"}

classify_ticket_node(s, result) ==
    LET subject     == Get(s, "subject", Some(<<>>))
        description == Get(s, "description", Some(<<>>))
        missing(x)  == x = None \/ Len(Val(x)) = 0
    IN  IF missing(subject) \/ missing(description)
        THEN [classification |-> Some("general"), processing_log |-> Some("missing subject or description")]
        ELSE IF result = "raise"
        THEN [classification |-> Some("general"), processing_log |-> Some("classification error")]
        ELSE [classification |-> Some(result), processing_log |-> Some("classification completed"),
              classification_metadata |-> Some(result)]

(******************************** drafting *********************************)

\* what the completion service does for a draft prompt: a text, or an error
DraftCompletions == {"draft-a", "draft-b", "error"}

_get_fallback_response(classification) ==
    IF classification \in Categories
    THEN "fallback-" \o classification
    ELSE "fallback-general"

\* DraftGenerator.generate_draft: the completion's text, or the static
\* fallback of the category when the completion fails
generate_draft(subject, description, classification, formatted_context, reviewer_feedback, attempt, completion) ==
    IF completion = "error"
    THEN _get_fallback_response(classification)
    ELSE completion

\* GroqClient.__init__ raises ValueError without an API key; the nodes
\* construct their generator / reviewer outside any try block
\* Mutant: the draft node stores the draft as the ticket's description
draft_generation_node_overwrites(s, completion) ==
    IF ~apiKey THEN Raised
    ELSE [draft_response |-> Some(completion),
          description    |-> Some(<<completion>>)]

draft_generation_node(s, completion) ==
    IF ~apiKey THEN Raised
    ELSE [draft_response |->
            Some(generate_draft(Val(s["subject"]), Val(s["description"]),
                                Val(s["classification"]), s["formatted_context"],
                                Get(s, "reviewer_feedback", None),
                                Get(s, "retrieval_attempt", Some(1)),
                                completion))]

(********************************* review **********************************)

TechnicalIssuesFeedback ==
    <<"unable", "to", "complete", "review", "due", "to", "technical", "issues">>

MeetsStandardsFeedback == <<"response", "meets", "all", "quality", "standards">>

NeedsImprovementFeedback == <<"response", "needs", "improvement">>

\* Replies of the completion service to a review prompt, line by line.  A
\* line is its leading tag (DECISION:, FEEDBACK: or none) and the words
\* after the tag.
ReviewReplies ==
    { << [tag |-> "DECISION", text |-> <<"APPROVED">>],
         [tag |-> "FEEDBACK", text |-> <<>>] >>,
      << [tag |-> "DECISION", text |-> <<"REJECTED">>],
         [tag |-> "FEEDBACK", text |-> <<"mention", "refund">>],
         [tag |-> "NONE",     text |-> <<"policy">>] >>,
      << [tag |-> "NONE",     text |-> <<"looks", "fine">>] >>,
      << [tag |-> "DECISION", text |-> <<"REJECTED", "not", "approved">>],
         [tag |-> "FEEDBACK", text |-> <<"add", "password", "steps">>] >> }

\* what the completion service does for a review prompt: a reply, or an error
ReviewCompletions ==
    {[error |-> FALSE, reply |-> r] : r \in ReviewReplies} \cup
    {[error |-> TRUE, reply |-> <<>>]}

\* words whose upper-cased spelling contains APPROVED
ApprovedWords == {"APPROVED", "approved", "Approved", "DISAPPROVED", "UNAPPROVED"}

\* "APPROVED" in decision_line.upper()
ContainsApproved(text) == \E i \in DOMAIN text : text[i] \in ApprovedWords

\* the loop of _parse_review_result over lines[1..n]: the decision line last
\* seen, whether one was seen, the feedback lines collected, whether a
\* FEEDBACK: line was seen
RECURSIVE ParseLines(_, _)
ParseLines(lines, n) ==
    IF n = 0
    THEN [decision_line |-> <<>>, found_decision |-> FALSE,
          feedback_lines |-> <<>>, found_feedback |-> FALSE]
    ELSE LET acc  == ParseLines(lines, n - 1)
             line == lines[n]
         IN  IF line.tag = "DECISION"
             THEN [acc EXCEPT !.decision_line = line.text, !.found_decision = TRUE]
             ELSE IF line.tag = "FEEDBACK"
             THEN [acc EXCEPT !.feedback_lines = @ \o line.text,
                              !.found_feedback = TRUE]
             ELSE IF acc.found_feedback
             THEN [acc EXCEPT !.feedback_lines = @ \o line.text]
             ELSE acc

_parse_review_result(review_result) ==
    LET acc      == ParseLines(review_result, Len(review_result))
        approved == acc.found_decision /\ ContainsApproved(acc.decision_line)
        feedback == IF Len(acc.feedback_lines) > 0 THEN acc.feedback_lines
                    ELSE IF approved THEN MeetsStandardsFeedback
                    ELSE NeedsImprovementFeedback
    IN  [approved |-> approved, feedback |-> feedback]

\* DraftReviewer.review_draft: a completion error is a rejection
review_draft(subject, description, classification, draft_response, attempt, completion) ==
    IF completion.error
    THEN [approved |-> FALSE, feedback |-> TechnicalIssuesFeedback]
    ELSE _parse_review_result(completion.reply)

\* Mutant: a completion error leaves review_passed as it was
review_node_keeps_verdict(s, completion) ==
    IF ~apiKey THEN Raised
    ELSE LET attempt == Get(s, "draft_attempt", Some(1))
             r == review_draft(Val(s["subject"]), Val(s["description"]),
                               Val(s["classification"]), s["draft_response"],
                               attempt, completion)
         IN  IF completion.error
             THEN [reviewer_feedback |-> Some(r.feedback),
                   draft_attempt     |-> attempt]
             ELSE [review_passed     |-> Some(r.approved),
                   reviewer_feedback |-> Some(r.feedback),
                   draft_attempt     |-> attempt]

\* Mutant: a failed review marks the record escalated itself
review_node_escalates(s, completion) ==
    IF ~apiKey THEN Raised
    ELSE LET attempt == Get(s, "draft_attempt", Some(1))
             r == review_draft(Val(s["subject"]), Val(s["description"]),
                               Val(s["classification"]), s["draft_response"],
                               attempt, completion)
         IN  [review_passed     |-> Some(r.approved),
              reviewer_feedback |-> Some(r.feedback),
              draft_attempt     |-> attempt,
              escalated         |-> Some(~r.approved)]

review_node(s, completion) ==
    IF ~apiKey THEN Raised
    ELSE LET attempt == Get(s, "draft_attempt", Some(1))
             r == review_draft(Val(s["subject"]), Val(s["description"]),
                               Val(s["classification"]), s["draft_response"],
                               attempt, completion)
         IN  [review_passed     |-> Some(r.approved),
              reviewer_feedback |-> Some(r.feedback),
              draft_attempt     |-> attempt]

(***************************** graph nodes *********************************)

\* (retrieved_docs ranges over the one list retrieve_context returns)
rag_retrieval_node(s) ==
    LET attempt == Get(s, "retrieval_attempt", Some(1))
    IN  CHOOSE update \in
            {[retrieved_context |-> Some(retrieved_docs),
              formatted_context |-> Some(format_context_for_prompt(retrieved_docs)),
              retrieval_attempt |-> attempt,
              draft_attempt     |-> Some(1)] :
             retrieved_docs \in
                {retrieve_context(Val(s["classification"]), Val(s["subject"]),
                                  Val(s["description"]),
                                  Get(s, "reviewer_feedback", None), attempt)}} : TRUE

\* Mutant: the retry retrieval counts the draft attempt too
retry_rag_node_counts_draft(s) ==
    LET stored == Get(s, "retrieval_attempt", Some(1))
    IN  IF stored = None THEN Raised
        ELSE LET attempt == Some(Val(stored) + 1)
             IN  CHOOSE update \in
                    {[retrieved_context |-> Some(retrieved_docs),
                      formatted_context |-> Some(format_context_for_prompt(retrieved_docs)),
                      retrieval_attempt |-> attempt,
                      draft_attempt     |-> attempt] :
                     retrieved_docs \in
                        {retrieve_context(Val(s["classification"]), Val(s["subject"]),
                                          Val(s["description"]),
                                          Get(s, "reviewer_feedback", None), attempt)}} : TRUE

\* Mutant: the retry retrieval stores the new documents and keeps the text
\* formatted for the earlier ones
retry_rag_node_keeps_format(s) ==
    LET stored == Get(s, "retrieval_attempt", Some(1))
    IN  IF stored = None THEN Raised
        ELSE LET attempt == Some(Val(stored) + 1)
             IN  [retrieved_context |->
                     Some(retrieve_context(Val(s["classification"]), Val(s["subject"]),
                                           Val(s["description"]),
                                           Get(s, "reviewer_feedback", None), attempt)),
                  retrieval_attempt |-> attempt]

\* None + 1 is a TypeError
retry_rag_node(s) ==
    LET stored == Get(s, "retrieval_attempt", Some(1))
    IN  IF stored = None THEN Raised
        ELSE LET attempt == Some(Val(stored) + 1)
             IN  CHOOSE update \in
                    {[retrieved_context |-> Some(retrieved_docs),
                      formatted_context |-> Some(format_context_for_prompt(retrieved_docs)),
                      retrieval_attempt |-> attempt] :
                     retrieved_docs \in
                        {retrieve_context(Val(s["classification"]), Val(s["subject"]),
                                          Val(s["description"]),
                                          Get(s, "reviewer_feedback", None), attempt)}} : TRUE

\* Mutant: a retry counts as two attempts
retry_draft_node_skips(s, completion) ==
    LET stored == Get(s, "draft_attempt", Some(1))
    IN  IF ~apiKey \/ stored = None THEN Raised
        ELSE LET attempt == Some(Val(stored) + 2)
             IN  [draft_response |->
                    Some(generate_draft(Val(s["subject"]), Val(s["description"]),
                                        Val(s["classification"]),
                                        s["formatted_context"],
                                        Get(s, "reviewer_feedback", None),
                                        attempt, completion)),
                  draft_attempt |-> attempt]

retry_draft_node(s, completion) ==
    LET stored == Get(s, "draft_attempt", Some(1))
    IN  IF ~apiKey \/ stored = None THEN Raised
        ELSE LET attempt == Some(Val(stored) + 1)
             IN  [draft_response |->
                    Some(generate_draft(Val(s["subject"]), Val(s["description"]),
                                        Val(s["classification"]),
                                        s["formatted_context"],
                                        Get(s, "reviewer_feedback", None),
                                        attempt, completion)),
                  draft_attempt |-> attempt]

\* maximum 3 attempts (original + 2 retries)
MAX_ATTEMPTS == 3

\* Mutant: the bound is compared with > instead of >=
check_max_attempts_strict(s) ==
    LET attempt       == Get(s, "draft_attempt", Some(1))
        review_passed == Get(s, "review_passed", Some(FALSE))
    IN  IF Truthy(review_passed) THEN "approved"
        ELSE IF attempt = None THEN "raise"
        ELSE IF Val(attempt) > MAX_ATTEMPTS THEN "max_attempts_reached"
        ELSE "retry"

\* Mutant: the attempt bound is tested before review_passed
check_max_attempts_bound_first(s) ==
    LET attempt       == Get(s, "draft_attempt", Some(1))
        review_passed == Get(s, "review_passed", Some(FALSE))
    IN  IF attempt # None /\ Val(attempt) >= MAX_ATTEMPTS THEN "max_attempts_reached"
        ELSE IF Truthy(review_passed) THEN "approved"
        ELSE IF attempt = None THEN "raise"
        ELSE "retry"

\* Mutant: the bound is reached one attempt early
check_max_attempts_early(s) ==
    LET attempt       == Get(s, "draft_attempt", Some(1))
        review_passed == Get(s, "review_passed", Some(FALSE))
    IN  IF Truthy(review_passed) THEN "approved"
        ELSE IF attempt = None THEN "raise"
        ELSE IF Val(attempt) >= MAX_ATTEMPTS - 1 THEN "max_attempts_reached"
        ELSE "retry"

\* Mutant: the decision is looked up in a table that ends at MAX_ATTEMPTS
check_max_attempts_lookup(s) ==
    LET attempt       == Get(s, "draft_attempt", Some(1))
        review_passed == Get(s, "review_passed", Some(FALSE))
    IN  IF attempt = None \/ Val(attempt) > MAX_ATTEMPTS THEN "raise"
        ELSE IF Truthy(review_passed) THEN "approved"
        ELSE IF Val(attempt) = MAX_ATTEMPTS THEN "max_attempts_reached"
        ELSE "retry"

\* Mutant: retrieval_attempt gates the escalation as well
check_max_attempts_gates_retrieval(s) ==
    LET attempt       == Get(s, "draft_attempt", Some(1))
        retrieval     == Get(s, "retrieval_attempt", Some(1))
        review_passed == Get(s, "review_passed", Some(FALSE))
    IN  IF Truthy(review_passed) THEN "approved"
        ELSE IF attempt = None THEN "raise"
        ELSE IF Val(attempt) >= MAX_ATTEMPTS
                \/ (retrieval # None /\ Val(retrieval) >= MAX_ATTEMPTS)
             THEN "max_attempts_reached"
        ELSE "retry"

\* The routing policy.  "raise" stands for the TypeError of None >= 3.
check_max_attempts(s) ==
    LET attempt       == Get(s, "draft_attempt", Some(1))
        review_passed == Get(s, "review_passed", Some(FALSE))
    IN  IF Truthy(review_passed) THEN "approved"
        ELSE IF attempt = None THEN "raise"
        ELSE IF Val(attempt) >= MAX_ATTEMPTS THEN "max_attempts_reached"
        ELSE "retry"

\* Mutant: the escalated flag is not part of the update
escalation_node_without_flag(s) ==
    [max_attempts_reached |-> Some(TRUE)]

\* Mutant: escalating clears the classification
escalation_node_clears_classification(s) ==
    [escalated            |-> Some(TRUE),
     max_attempts_reached |-> Some(TRUE),
     classification       |-> None]

\* Mutant: the message is built from the defaults, not from the record
escalation_node_defaults(s) ==
    [escalated            |-> Some(TRUE),
     max_attempts_reached |-> Some(TRUE),
     escalation_message   |->
        Some([subject        |-> s["subject"],
              description    |-> s["description"],
              classification |-> s["classification"],
              attempts       |-> Some(1),
              failed_draft   |-> Some("No draft generated"),
              feedback       |-> Some(<<"No", "feedback", "available">>)])]

\* the escalation message: the values the f-string interpolates, in order
escalation_node(s) ==
    [escalated            |-> Some(TRUE),
     max_attempts_reached |-> Some(TRUE),
     escalation_message   |->
        Some([subject        |-> s["subject"],
              description    |-> s["description"],
              classification |-> s["classification"],
              attempts       |-> Get(s, "draft_attempt", Some(1)),
              failed_draft   |-> Get(s, "draft_response", Some("No draft generated")),
              feedback       |-> Get(s, "reviewer_feedback",
                                     Some(<<"No", "feedback", "available">>))])]

(*************************** escalation recorder ***************************)

\* the header row _ensure_csv_exists writes
CsvHeader ==
    <<"timestamp", "subject", "description", "classification", "attempts",
      "final_draft", "final_feedback", "escalation_reason">>

\* the row log_escalation writes for a record; datetime.now() is "now"
LogRow(s) ==
    <<"now",
      Get(s, "subject", Some(<<>>)),
      Get(s, "description", Some(<<>>)),
      Get(s, "classification", Some("")),
      Get(s, "draft_attempt", Some(1)),
      Get(s, "draft_response", Some("")),
      Get(s, "reviewer_feedback", Some(<<>>)),
      "Max attempts reached">>

\* os.path.exists(self.csv_file)
CsvExists(file) == file # None

\* open(csv_file, 'w') and the header row: whatever the file held is gone
CreateWithHeader(file) == Some(<<CsvHeader>>)

\* open(csv_file, 'a') creates a missing file; writerow adds one line at
\* the end of the file
AppendRow(file, row) ==
    IF file = None THEN Some(<<row>>) ELSE Some(Append(Val(file), row))

\* what escalation_node_with_logging returns once the recorder is done: the
\* same three keys as escalation_node
escalation_node_with_logging(s) ==
    [escalated            |-> Some(TRUE),
     max_attempts_reached |-> Some(TRUE),
     escalation_message   |->
        Some([subject        |-> s["subject"],
              description    |-> s["description"],
              classification |-> s["classification"],
              attempts       |-> Get(s, "draft_attempt", Some(1)),
              failed_draft   |-> Get(s, "draft_response", Some("No draft generated")),
              feedback       |-> Get(s, "reviewer_feedback",
                                     Some(<<"No", "feedback", "available">>))])]

\* Mutant: a retry goes straight to retry_draft
ConditionalEdge_skips_retrieval(d) ==
    CASE d = "approved" -> "END"
      [] d = "retry" -> "retry_draft"
      [] d = "max_attempts_reached" -> "escalation"
      [] OTHER -> "RAISED"

\* add_conditional_edges("review_draft", check_max_attempts, {...})
ConditionalEdge(d) ==
    CASE d = "approved" -> "END"
      [] d = "retry" -> "retry_rag"
      [] d = "max_attempts_reached" -> "escalation"
      [] OTHER -> "RAISED"

(******************************* actions ***********************************)

\* Mutant: the retry nodes hand on the feedback of the initial record
Executed_stale(node, s, u) ==
    [node         |-> node,
     attempt      |-> CASE node \in {"rag_retrieval", "draft_response"} ->
                               Get(s, "retrieval_attempt", Some(1))
                        [] node = "review_draft" -> Get(s, "draft_attempt", Some(1))
                        [] node = "retry_rag" ->
                               Some(Val(Get(s, "retrieval_attempt", Some(1))) + 1)
                        [] node = "retry_draft" ->
                               Some(Val(Get(s, "draft_attempt", Some(1))) + 1)
                        [] OTHER -> None,
     feedback_in  |-> None,
     feedback_out |-> IF node = "review_draft" THEN u["reviewer_feedback"] ELSE None]

\* What a node that returned did: the attempt number and the reviewer
\* feedback it handed to its collaborator (retrieve_context, generate_draft,
\* review_draft), and the feedback review_node got back.
Executed(node, s, u) ==
    [node         |-> node,
     attempt      |-> CASE node \in {"rag_retrieval", "draft_response"} ->
                               Get(s, "retrieval_attempt", Some(1))
                        [] node = "review_draft" -> Get(s, "draft_attempt", Some(1))
                        [] node = "retry_rag" ->
                               Some(Val(Get(s, "retrieval_attempt", Some(1))) + 1)
                        [] node = "retry_draft" ->
                               Some(Val(Get(s, "draft_attempt", Some(1))) + 1)
                        [] OTHER -> None,
     feedback_in  |-> IF node \in {"rag_retrieval", "draft_response",
                                   "retry_rag", "retry_draft"}
                      THEN Get(s, "reviewer_feedback", None) ELSE None,
     feedback_out |-> IF node = "review_draft" THEN u["reviewer_feedback"] ELSE None]

\* run one node: merge its update and follow the edge, or let its exception
\* end the run
RunNode(upd, next) ==
    \E u \in {upd} :
        IF IsRaised(u)
        THEN /\ pc' = "RAISED"
             /\ state' = state
             /\ path' = path
        ELSE /\ pc' = next
             /\ state' = Merge(state, u)
             /\ path' = Append(path, Executed(pc, state, u))

\* the caller builds the initial record and calls graph.invoke, or refuses
Invoke ==
    /\ pc = "caller"
    /\ IF CallerInvokes(caller, ticket)
       THEN /\ initial' = create_initial_state(caller, ticket.subject, ticket.description)
            /\ state' = initial'
            /\ pc' = "classify_ticket"
       ELSE /\ UNCHANGED <<state, initial>>
            /\ pc' = "NOT_RUN"
    /\ UNCHANGED <<caller, ticket, apiKey, decision, reviews>>
    /\ UNCHANGED <<returned, path, logVars, pairVars>>

ClassifyTicket ==
    /\ pc = "classify_ticket"
    /\ \E result \in ClassifierResults :
          RunNode(classify_ticket_node(state, result), "rag_retrieval")
    /\ UNCHANGED <<caller, ticket, apiKey, initial, decision, reviews>>
    /\ UNCHANGED <<returned, logVars, pairVars>>

RagRetrieval ==
    /\ pc = "rag_retrieval"
    /\ RunNode(rag_retrieval_node(state), "draft_response")
    /\ UNCHANGED <<caller, ticket, apiKey, initial, decision, reviews>>
    /\ UNCHANGED <<returned, logVars, pairVars>>

DraftResponse ==
    /\ pc = "draft_response"
    /\ \E completion \in DraftCompletions :
          RunNode(draft_generation_node(state, completion), "review_draft")
    /\ UNCHANGED <<caller, ticket, apiKey, initial, decision, reviews>>
    /\ UNCHANGED <<returned, logVars, pairVars>>

ReviewDraft ==
    /\ pc = "review_draft"
    /\ \E completion \in ReviewCompletions :
          RunNode(review_node(state, completion), "check_max_attempts")
    /\ reviews' = IF apiKey THEN reviews + 1 ELSE reviews
    /\ UNCHANGED <<caller, ticket, apiKey, initial, decision>>
    /\ UNCHANGED <<returned, logVars, pairVars>>

\* the conditional edge after review_draft
CheckMaxAttempts ==
    /\ pc = "check_max_attempts"
    /\ decision' = check_max_attempts(state)
    /\ pc' = ConditionalEdge(decision')
    /\ UNCHANGED <<state, caller, ticket, apiKey, initial, reviews>>
    /\ UNCHANGED <<returned, path, logVars, pairVars>>

RetryRag ==
    /\ pc = "retry_rag"
    /\ RunNode(retry_rag_node(state), "retry_draft")
    /\ UNCHANGED <<caller, ticket, apiKey, initial, decision, reviews>>
    /\ UNCHANGED <<returned, logVars, pairVars>>

RetryDraft ==
    /\ pc = "retry_draft"
    /\ \E completion \in DraftCompletions :
          RunNode(retry_draft_node(state, completion), "review_draft")
    /\ UNCHANGED <<caller, ticket, apiKey, initial, decision, reviews>>
    /\ UNCHANGED <<returned, logVars, pairVars>>

Escalation ==
    /\ pc = "escalation"
    /\ RunNode(escalation_node(state), "END")
    /\ UNCHANGED <<caller, ticket, apiKey, initial, decision, reviews>>
    /\ UNCHANGED <<returned, logVars, pairVars>>

\* the result of a run that raised: api.py answers HTTP 500, the others
\* report the error (main.py: success False)
RunFailure(c) ==
    [success |-> FALSE, status |-> IF c = "api" THEN Some(500) ELSE None,
     classification |-> None, escalated |-> None, review_passed |-> None,
     attempts |-> None, escalation_message |-> None,
     detail |-> IF c = "api" THEN Some("Failed to process ticket") ELSE None]

\* Mutant: the caller reports a run that raised as a success, with the
\* fields of the initial record
CallerResult_swallows(c, ended, final_state, initial_state) ==
    LET shown == IF ended = "RAISED" THEN initial_state ELSE final_state
    IN  [success |-> TRUE, status |-> IF c = "api" THEN Some(200) ELSE None,
         classification     |-> Get(shown, "classification", None),
         escalated          |-> Get(shown, "escalated", Some(FALSE)),
         review_passed      |-> Get(shown, "review_passed", Some(FALSE)),
         attempts           |-> Get(shown, "draft_attempt", Some(1)),
         escalation_message |-> Get(shown, "escalation_message", None),
         detail             |-> None]

\* What the caller gets back.  process_ticket builds a TicketResponse (bool()
\* of escalated; review_passed and attempts must not be None, or the
\* validation error becomes HTTP 500); run_single_ticket returns the fields
\* as graph.invoke left them; the tests keep graph.invoke's record.
CallerResult(c, ended, final_state, initial_state) ==
    IF ended = "RAISED" THEN RunFailure(c)
    ELSE IF c = "api"
    THEN IF Get(final_state, "review_passed", Some(FALSE)) = None
            \/ Get(final_state, "draft_attempt", Some(1)) = None
         THEN RunFailure(c)
         ELSE [success |-> TRUE, status |-> Some(200),
               classification     |-> Get(final_state, "classification", None),
               escalated          |-> Some(Truthy(Get(final_state, "escalated", Some(FALSE)))),
               review_passed      |-> Get(final_state, "review_passed", Some(FALSE)),
               attempts           |-> Get(final_state, "draft_attempt", Some(1)),
               escalation_message |-> Get(final_state, "escalation_message", None),
               detail             |-> None]
    ELSE [success |-> TRUE, status |-> None,
          classification     |-> Get(final_state, "classification", None),
          escalated          |-> Get(final_state, "escalated", Some(FALSE)),
          review_passed      |-> Get(final_state, "review_passed", Some(FALSE)),
          attempts           |-> Get(final_state, "draft_attempt", Some(1)),
          escalation_message |-> Get(final_state, "escalation_message", None),
          detail             |-> None]

\* graph.invoke returned, or raised: the caller builds its result
Return ==
    /\ pc \in {"END", "RAISED"}
    /\ returned = None
    /\ returned' = Some(CallerResult(caller, pc, state, initial))
    /\ UNCHANGED <<state, pc, caller, ticket, apiKey, initial, decision, reviews>>
    /\ UNCHANGED <<path, logVars, pairVars>>

\* process_ticket on a blank subject or description: HTTPException(400,
\* "Subject and description are required") is raised inside the try, and
\* HTTPException is an Exception, so the handler's `except Exception`
\* catches it and raises HTTPException(500, "Failed to process ticket: ...")
Rejection ==
    [success |-> FALSE, status |-> Some(500),
     classification |-> None, escalated |-> None, review_passed |-> None,
     attempts |-> None, escalation_message |-> None,
     detail |-> Some("Failed to process ticket")]

\* process_ticket answers a request it did not hand to the graph
Reject ==
    /\ pc = "NOT_RUN"
    /\ caller = "api"
    /\ returned = None
    /\ returned' = Some(Rejection)
    /\ UNCHANGED <<state, pc, caller, ticket, apiKey, initial, decision, reviews>>
    /\ UNCHANGED <<path, logVars, pairVars>>

\* the graph's nodes never touch the escalation log: no call of
\* escalation_node_with_logging is in progress and the log does not exist
NoEscalations ==
    /\ csv_file = None
    /\ fsOk = TRUE
    /\ escalations = <<>>

\* a single run of the graph
NoPair ==
    /\ pair = <<>>
    /\ script = <<>>

Init ==
    /\ NoEscalations
    /\ NoPair
    /\ caller \in Callers
    /\ ticket \in Tickets
    /\ apiKey \in BOOLEAN
    /\ state = EmptyDict
    /\ initial = EmptyDict
    /\ pc = "caller"
    /\ decision = "none"
    /\ reviews = 0
    /\ returned = None
    /\ path = <<>>

Next ==
    \/ Invoke
    \/ ClassifyTicket
    \/ RagRetrieval
    \/ DraftResponse
    \/ ReviewDraft
    \/ CheckMaxAttempts
    \/ RetryRag
    \/ RetryDraft
    \/ Escalation
    \/ Return
    \/ Reject

Spec == Init /\ [][Next]_vars

\* graph.invoke runs the nodes one after the other until END or an exception:
\* a run that can take a step takes it
FairSpec == Spec /\ WF_vars(Next)

(************ runs in which a collaborator fails at every call *************)

\* the completion service fails whenever draft_generation_node asks it
DraftResponseFails ==
    /\ pc = "draft_response"
    /\ RunNode(draft_generation_node(state, "error"), "review_draft")
    /\ UNCHANGED <<caller, ticket, apiKey, initial, decision, reviews>>
    /\ UNCHANGED <<returned, logVars, pairVars>>

\* the completion service fails whenever retry_draft_node asks it
RetryDraftFails ==
    /\ pc = "retry_draft"
    /\ RunNode(retry_draft_node(state, "error"), "review_draft")
    /\ UNCHANGED <<caller, ticket, apiKey, initial, decision, reviews>>
    /\ UNCHANGED <<returned, logVars, pairVars>>

FallbackNext ==
    \/ Invoke
    \/ ClassifyTicket
    \/ RagRetrieval
    \/ DraftResponseFails
    \/ ReviewDraft
    \/ CheckMaxAttempts
    \/ RetryRag
    \/ RetryDraftFails
    \/ Escalation
    \/ Return
    \/ Reject

\* the runs in which every draft completion fails
FallbackSpec == Init /\ [][FallbackNext]_vars

\* TicketClassifier.classify_ticket raises
ClassifyTicketFails ==
    /\ pc = "classify_ticket"
    /\ RunNode(classify_ticket_node(state, "raise"), "rag_retrieval")
    /\ UNCHANGED <<caller, ticket, apiKey, initial, decision, reviews>>
    /\ UNCHANGED <<returned, logVars, pairVars>>

ClassifyFailNext ==
    \/ Invoke
    \/ ClassifyTicketFails
    \/ RagRetrieval
    \/ DraftResponse
    \/ ReviewDraft
    \/ CheckMaxAttempts
    \/ RetryRag
    \/ RetryDraft
    \/ Escalation
    \/ Return
    \/ Reject

\* the runs in which the classifier fails
ClassifyFailSpec == Init /\ [][ClassifyFailNext]_vars

(******************* the routing policy, table-tested **********************)

\* a dict field as the table test sets it: absent, or stored with a value
AttemptOptions ==
    {[present |-> FALSE, value |-> None], [present |-> TRUE, value |-> None]}
    \cup {[present |-> TRUE, value |-> Some(n)] : n \in 1..MaxAttemptInput}

PassedOptions ==
    {[present |-> FALSE, value |-> None], [present |-> TRUE, value |-> None],
     [present |-> TRUE, value |-> Some(TRUE)], [present |-> TRUE, value |-> Some(FALSE)]}

FeedbackOptions ==
    {[present |-> TRUE, value |-> None],
     [present |-> TRUE, value |-> Some(NeedsImprovementFeedback)]}

WithField(s, k, o) ==
    [j \in IF o.present THEN (DOMAIN s) \cup {k} ELSE (DOMAIN s) \ {k} |->
        IF j = k THEN o.value ELSE s[j]]

RouteRecord(t, da, rp, ra, fb) ==
    WithField(WithField(WithField(WithField(
        ApiInitialState(t.subject, t.description),
        "draft_attempt", da), "review_passed", rp),
        "retrieval_attempt", ra), "reviewer_feedback", fb)

RouteRecords ==
    {RouteRecord(t, da, rp, ra, fb) :
        t \in {tk \in Tickets : ~Blank(tk.subject)},
        da \in AttemptOptions, rp \in PassedOptions,
        ra \in AttemptOptions, fb \in FeedbackOptions}

RouteInit ==
    /\ NoEscalations
    /\ NoPair
    /\ caller = "api"
    /\ ticket \in {tk \in Tickets : ~Blank(tk.subject)}
    /\ apiKey = TRUE
    /\ initial = EmptyDict
    /\ \E da \in AttemptOptions, rp \in PassedOptions,
          ra \in AttemptOptions, fb \in FeedbackOptions :
            state = RouteRecord(ticket, da, rp, ra, fb)
    /\ pc = "check_max_attempts"
    /\ decision = "none"
    /\ reviews = 0
    /\ returned = None
    /\ path = <<>>

RouteNext == CheckMaxAttempts

RouteSpec == RouteInit /\ [][RouteNext]_vars

(******************** the reviewer's parser, called alone *****************)

\* lines a reviewer's reply can hold
ReplyLines ==
    {[tag |-> "DECISION", text |-> <<"APPROVED">>],
     [tag |-> "DECISION", text |-> <<"REJECTED">>],
     [tag |-> "DECISION", text |-> <<"REJECTED", "not", "approved">>],
     [tag |-> "FEEDBACK", text |-> <<"mention", "refund">>],
     [tag |-> "NONE",     text |-> <<"policy">>]}

\* replies of one to MaxLines lines
ParseReplies == UNION {[1..n -> ReplyLines] : n \in 1..MaxLines}

\* self._parse_review_result(review_result) as review_draft calls it
ParseReviewResult ==
    /\ pc = "parse_review_result"
    /\ \E r \in {_parse_review_result(script["review_result"])} :
          state' = [review_passed     |-> Some(r.approved),
                    reviewer_feedback |-> Some(r.feedback)]
    /\ pc' = "parsed"
    /\ UNCHANGED <<caller, ticket, apiKey, initial, decision, reviews>>
    /\ UNCHANGED <<returned, path, logVars, pairVars>>

\* a reply of the completion service is about to be parsed
ParseInit ==
    /\ NoEscalations
    /\ pair = <<>>
    /\ \E reply \in ParseReplies : script = [review_result |-> reply]
    /\ caller = "main"
    /\ ticket = [subject |-> <<"refund">>, description |-> <<"charged", "twice">>]
    /\ apiKey = TRUE
    /\ state = EmptyDict
    /\ initial = EmptyDict
    /\ pc = "parse_review_result"
    /\ decision = "none"
    /\ reviews = 0
    /\ returned = None
    /\ path = <<>>

ParseNext == ParseReviewResult

ParseSpec == ParseInit /\ [][ParseNext]_vars

(******************* the retriever's two methods, called alone ************)

\* documents a caller can hand to format_context_for_prompt
Documents ==
    {[title |-> "Refund Policy", content |-> "billing-2"],
     [title |-> "Login Issues",  content |-> "technical-1"]}

DocumentLists == UNION {[1..n -> Documents] : n \in 0..MaxDocs}

\* reviewer_feedback arguments: none, an empty text, a text
RetrievalFeedback == {None, Some(<<>>), Some(<<"mention", "refund", "policy">>)}

\* classification arguments: the categories, and a name the knowledge base
\* does not have
RetrievalCategories == Categories \cup {"unknown"}

\* retriever.retrieve_context(...) as rag_retrieval_node calls it
RetrieveContext ==
    /\ pc = "retrieve_context"
    /\ state' = Merge(state, [retrieved_context |->
            Some(retrieve_context(Val(state["classification"]), Val(state["subject"]),
                                  Val(state["description"]), state["reviewer_feedback"],
                                  state["retrieval_attempt"]))])
    /\ pc' = "format_context_for_prompt"
    /\ UNCHANGED <<caller, ticket, apiKey, initial, decision, reviews>>
    /\ UNCHANGED <<returned, path, logVars, pairVars>>

\* retriever.format_context_for_prompt(retrieved_docs)
FormatContext ==
    /\ pc = "format_context_for_prompt"
    /\ state' = Merge(state, [formatted_context |->
            Some(format_context_for_prompt(Val(state["retrieved_context"])))])
    /\ pc' = "formatted"
    /\ UNCHANGED <<caller, ticket, apiKey, initial, decision, reviews>>
    /\ UNCHANGED <<returned, path, logVars, pairVars>>

\* the arguments of a call of retrieve_context, or a document list handed
\* to format_context_for_prompt directly
RetrievalInit ==
    /\ NoEscalations
    /\ NoPair
    /\ caller = "main"
    /\ apiKey = TRUE
    /\ initial = EmptyDict
    /\ \/ /\ pc = "retrieve_context"
          /\ ticket \in Tickets
          /\ \E c \in RetrievalCategories, fb \in RetrievalFeedback, a \in 1..MaxAttemptInput :
                state = [classification    |-> Some(c),
                         subject           |-> Some(ticket.subject),
                         description       |-> Some(ticket.description),
                         reviewer_feedback |-> fb,
                         retrieval_attempt |-> Some(a)]
       \/ /\ pc = "format_context_for_prompt"
          /\ ticket = [subject |-> <<>>, description |-> <<"hello">>]
          /\ \E docs \in DocumentLists : state = [retrieved_context |-> Some(docs)]
    /\ decision = "none"
    /\ reviews = 0
    /\ returned = None
    /\ path = <<>>

RetrievalNext ==
    \/ RetrieveContext
    \/ FormatContext

RetrievalSpec == RetrievalInit /\ [][RetrievalNext]_vars

(************** the escalation recorder, called concurrently ***************)

Workers == 1..NumEscalations

\* the ticket of the w-th escalating run
TicketOf(w) ==
    IF w % 2 = 1
    THEN [subject |-> <<"refund">>, description |-> <<"charged", "twice">>]
    ELSE [subject |-> <<"login">>,  description |-> <<"password", "reset">>]

\* the record of a run that the routing policy sends to escalation
EscalatingRecord(w) ==
    [ApiInitialState(TicketOf(w).subject, TicketOf(w).description) EXCEPT
        !["classification"]    = Some("billing"),
        !["retrieval_attempt"] = Some(MAX_ATTEMPTS),
        !["draft_attempt"]     = Some(MAX_ATTEMPTS),
        !["draft_response"]    = Some("draft-a"),
        !["review_passed"]     = Some(FALSE),
        !["reviewer_feedback"] = Some(NeedsImprovementFeedback)]

\* EscalationLogger.__init__ -> _ensure_csv_exists: the existence test
EnsureCsvExists(w) ==
    /\ escalations[w].pc = "ensure_csv_exists"
    /\ escalations' = [escalations EXCEPT ![w].pc =
            IF CsvExists(csv_file) THEN "log_escalation" ELSE "create"]
    /\ UNCHANGED <<csv_file, fsOk, runVars, pairVars>>

\* _ensure_csv_exists, the file was not there when tested: open it with 'w'
\* and write the header.  Nothing catches the error of open: it leaves
\* __init__ and escalation_node_with_logging.
CreateCsv(w) ==
    /\ escalations[w].pc = "create"
    /\ IF fsOk
       THEN /\ csv_file' = CreateWithHeader(csv_file)
            /\ escalations' = [escalations EXCEPT ![w].pc = "log_escalation"]
       ELSE /\ csv_file' = csv_file
            /\ escalations' = [escalations EXCEPT ![w].pc = "raised"]
    /\ UNCHANGED <<fsOk, runVars, pairVars>>

\* log_escalation appends the row, or prints the error it caught; the node
\* then builds the message and returns
LogEscalation(w) ==
    /\ escalations[w].pc = "log_escalation"
    /\ csv_file' = IF fsOk THEN AppendRow(csv_file, LogRow(escalations[w].state))
                   ELSE csv_file
    /\ escalations' = [escalations EXCEPT
            ![w].pc = "done",
            ![w].result = Some(escalation_node_with_logging(escalations[w].state))]
    /\ UNCHANGED <<fsOk, runVars, pairVars>>

LogInit ==
    /\ csv_file \in {None, Some(<<CsvHeader>>)}
    /\ fsOk \in BOOLEAN
    /\ escalations = [w \in Workers |->
            [state |-> EscalatingRecord(w), pc |-> "ensure_csv_exists", result |-> None]]
    /\ NoPair
    /\ caller = "api"
    /\ ticket = TicketOf(1)
    /\ apiKey = TRUE
    /\ state = EmptyDict
    /\ initial = EmptyDict
    /\ pc = "NOT_RUN"
    /\ decision = "none"
    /\ reviews = 0
    /\ returned = None
    /\ path = <<>>

LogNext ==
    \/ \E w \in DOMAIN escalations : EnsureCsvExists(w)
    \/ \E w \in DOMAIN escalations : CreateCsv(w)
    \/ \E w \in DOMAIN escalations : LogEscalation(w)

LogSpec == LogInit /\ [][LogNext]_vars

(************* two runs through the same compiled graph ********************)

\* the two requests that share the module-level compiled graph of api.py
Runs == {"first", "second"}

\* the tickets a request can carry past the blank test of process_ticket
RequestTickets == {t \in Tickets : ~Blank(t.subject) /\ ~Blank(t.description)}

ApprovingReply == [error |-> FALSE, reply |-> << [tag |-> "DECISION", text |-> <<"APPROVED">>], [tag |-> "FEEDBACK", text |-> <<>>] >>]

RejectingReply == [error |-> FALSE, reply |-> << [tag |-> "DECISION", text |-> <<"REJECTED">>], [tag |-> "FEEDBACK", text |-> <<"mention", "refund">>], [tag |-> "NONE", text |-> <<"policy">>] >>]

\* What the collaborators answer to one run: the classifier's result, the
\* draft completion, and the Review call that first approves (a pass_at
\* beyond MAX_ATTEMPTS: none does).
Scripts ==
    [ticket     : RequestTickets,
     classifier : {"security", "raise"},
     draft      : {"draft-a", "error"},
     pass_at    : 1..(MAX_ATTEMPTS + 1)]

\* the completion the j-th Review call of a run gets
ReviewAnswer(sc, j) == IF j = sc.pass_at THEN ApprovingReply ELSE RejectingReply

\* the partial update of the node a run is at
NodeUpdate(rec, sc) ==
    CASE rec.pc = "classify_ticket" -> classify_ticket_node(rec.state, sc.classifier)
      [] rec.pc = "rag_retrieval"   -> rag_retrieval_node(rec.state)
      [] rec.pc = "draft_response"  -> draft_generation_node(rec.state, sc.draft)
      [] rec.pc = "review_draft"    -> review_node(rec.state, ReviewAnswer(sc, rec.reviews + 1))
      [] rec.pc = "retry_rag"       -> retry_rag_node(rec.state)
      [] rec.pc = "retry_draft"     -> retry_draft_node(rec.state, sc.draft)
      [] rec.pc = "escalation"      -> escalation_node(rec.state)

\* graph.add_edge: the node that follows a node
Edge(node) ==
    CASE node = "classify_ticket" -> "rag_retrieval"
      [] node = "rag_retrieval"   -> "draft_response"
      [] node = "draft_response"  -> "review_draft"
      [] node = "review_draft"    -> "check_max_attempts"
      [] node = "retry_rag"       -> "retry_draft"
      [] node = "retry_draft"     -> "review_draft"
      [] node = "escalation"      -> "END"

\* one step of one run: the conditional edge, or a node and its edge
StepRun(rec, sc) ==
    IF rec.pc = "check_max_attempts"
    THEN [rec EXCEPT !.pc = ConditionalEdge(check_max_attempts(rec.state))]
    ELSE CHOOSE next \in
            {IF IsRaised(u) THEN [rec EXCEPT !.pc = "RAISED"]
             ELSE [state   |-> Merge(rec.state, u),
                   pc      |-> Edge(rec.pc),
                   reviews |-> IF rec.pc = "review_draft"
                               THEN rec.reviews + 1 ELSE rec.reviews,
                   path    |-> Append(rec.path, rec.pc)] :
             u \in {NodeUpdate(rec, sc)}} : TRUE

Ended(rec) == rec.pc \in {"END", "RAISED"}

\* process_ticket up to graph.invoke: the record of a new run
StartOfRun(sc) ==
    [state   |-> ApiInitialState(sc.ticket.subject, sc.ticket.description),
     pc      |-> "classify_ticket",
     reviews |-> 0,
     path    |-> <<>>]

\* graph.invoke on a run of its own, to its end
RECURSIVE RunAlone(_, _)
RunAlone(rec, sc) ==
    IF Ended(rec) THEN rec ELSE RunAlone(StepRun(rec, sc), sc)

\* Mutant: the compiled graph keeps one record for all its invocations
StoreStep_shared(p, r, rec) ==
    [q \in DOMAIN p |-> IF q = r THEN rec ELSE [p[q] EXCEPT !.state = rec.state]]

\* every graph.invoke has channels of its own: a step of run r is stored in
\* the record of run r
StoreStep(p, r, rec) ==
    [p EXCEPT ![r] = rec]

\* one of the runs takes its next step
PairStep(r) ==
    /\ ~Ended(pair[r])
    /\ pair' = StoreStep(pair, r, StepRun(pair[r], script[r]))
    /\ UNCHANGED <<script, runVars, logVars>>

PairInit ==
    /\ script \in [Runs -> Scripts]
    /\ pair = [r \in Runs |-> StartOfRun(script[r])]
    /\ NoEscalations
    /\ caller = "api"
    /\ ticket \in RequestTickets
    /\ ticket = script["first"].ticket
    /\ apiKey \in BOOLEAN
    /\ state = EmptyDict
    /\ initial = EmptyDict
    /\ pc = "NOT_RUN"
    /\ decision = "none"
    /\ reviews = 0
    /\ returned = None
    /\ path = <<>>

PairNext == \E r \in DOMAIN pair : PairStep(r)

PairSpec == PairInit /\ [][PairNext]_vars

(***************************** properties **********************************)

RetrievalAttempt == Get(state, "retrieval_attempt", None)

DraftAttempt == Get(state, "draft_attempt", None)

ReviewPassed == Truthy(Get(state, "review_passed", None))

Escalated == Truthy(Get(state, "escalated", None))

\* the record handed to graph.invoke has both attempt counters at 1
ValidInitialRecord ==
    /\ Get(initial, "retrieval_attempt", None) = Some(1)
    /\ Get(initial, "draft_attempt", None) = Some(1)

\* the routing policy has been evaluated
Routed == decision # "none"

RoutingDecisions == {"approved", "retry", "max_attempts_reached"}

C2_MutualExclusivity ==
    pc = "END" => (ReviewPassed # Escalated)

\* a run that ended escalated, its last review not passed
C2_Witness ==
    pc = "END" /\ Escalated /\ ~ReviewPassed /\ reviews = MAX_ATTEMPTS

\* C3: the policy answers approved whenever review_passed is True, whatever
\* draft_attempt is, and the run ends.
C3_PassedIsApproved ==
    (Routed /\ ReviewPassed) => (decision = "approved" /\ pc = "END")

\* a passed review routed at draft_attempt = 4
C3_Witness ==
    Routed /\ ReviewPassed /\ DraftAttempt = Some(MaxAttemptInput)
    /\ decision = "approved"

\* C4: the policy answers retry when review_passed is not True and
\* draft_attempt is below MAX_ATTEMPTS.
C4_BelowMaxIsRetry ==
    (Routed /\ ~ReviewPassed /\ DraftAttempt # None
        /\ Val(DraftAttempt) < MAX_ATTEMPTS)
    => (decision = "retry" /\ pc = "retry_rag")

\* a failed review routed at draft_attempt = 2
C4_Witness ==
    Routed /\ Get(state, "review_passed", None) = Some(FALSE)
    /\ DraftAttempt = Some(MAX_ATTEMPTS - 1) /\ decision = "retry"

\* C5: the policy answers max_attempts_reached when review_passed is not
\* True and draft_attempt is at least MAX_ATTEMPTS.
C5_AtMaxIsEscalate ==
    (Routed /\ ~ReviewPassed /\ DraftAttempt # None
        /\ Val(DraftAttempt) >= MAX_ATTEMPTS)
    => (decision = "max_attempts_reached" /\ pc = "escalation")

\* a failed review routed at draft_attempt = 3
C5_Witness ==
    Routed /\ Get(state, "review_passed", None) = Some(FALSE)
    /\ DraftAttempt = Some(MAX_ATTEMPTS) /\ decision = "max_attempts_reached"

\* the pairs of the routing table: draft_attempt in 1..MaxAttemptInput and
\* review_passed a boolean
TableInput(s) ==
    /\ Get(s, "draft_attempt", None) \in {Some(n) : n \in 1..MaxAttemptInput}
    /\ Get(s, "review_passed", None) \in {Some(TRUE), Some(FALSE)}

\* C6: on every pair of the routing table the policy returns one of the
\* three decisions, leaves the record as it was, and returns the same
\* decision when it is evaluated again on the record it left.
C6_PureTotal ==
    [][(pc = "check_max_attempts" /\ TableInput(state))
        => /\ decision' \in RoutingDecisions
           /\ state' = state
           /\ check_max_attempts(state') = decision']_vars

\* the policy evaluated on the pair (4, False)
C6_Witness ==
    Routed /\ TableInput(state) /\ DraftAttempt = Some(MaxAttemptInput)
    /\ ~ReviewPassed /\ decision \in RoutingDecisions

\* two records hold the same draft_attempt and review_passed
AgreeOn(s1, s2, k) ==
    /\ (k \in DOMAIN s1) <=> (k \in DOMAIN s2)
    /\ k \in DOMAIN s1 => s1[k] = s2[k]

\* C7: the decision taken for a record is the decision of every record that
\* agrees with it on draft_attempt and review_passed, whatever its
\* retrieval_attempt and reviewer_feedback.
C7_DependsOnlyOnAttemptAndPassed ==
    Routed =>
        \A s2 \in RouteRecords :
            (AgreeOn(state, s2, "draft_attempt") /\ AgreeOn(state, s2, "review_passed"))
            => check_max_attempts(s2) = decision

\* a retry decided at draft_attempt = 1 with retrieval_attempt = 4
C7_Witness ==
    Routed /\ decision = "retry" /\ DraftAttempt = Some(1)
    /\ RetrievalAttempt = Some(MaxAttemptInput)

\* C8: the attempt counters never decrease, retry_rag_node adds exactly 1 to
\* retrieval_attempt and retry_draft_node adds exactly 1 to draft_attempt.
C8_MonotonicAttempts ==
    [][/\ (RetrievalAttempt # None /\ RetrievalAttempt' # None)
            => Val(RetrievalAttempt') >= Val(RetrievalAttempt)
       /\ (DraftAttempt # None /\ DraftAttempt' # None)
            => Val(DraftAttempt') >= Val(DraftAttempt)
       /\ pc = "retry_rag"
            => /\ RetrievalAttempt # None /\ RetrievalAttempt' # None
               /\ Val(RetrievalAttempt') = Val(RetrievalAttempt) + 1
       /\ pc = "retry_draft"
            => /\ DraftAttempt # None /\ DraftAttempt' # None
               /\ Val(DraftAttempt') = Val(DraftAttempt) + 1]_vars

\* C9: whenever Review is about to run, retrieval_attempt equals
\* draft_attempt, both one more than the number of reviews made so far.
C9_LockStep ==
    pc = "review_draft" =>
        /\ RetrievalAttempt = DraftAttempt
        /\ DraftAttempt = Some(reviews + 1)

\* the workflow fields other than the ticket and the attempt counters
OptionalFields ==
    SchemaKeys \ {"subject", "description", "retrieval_attempt", "draft_attempt"}

\* C10: the record a caller hands to the graph has both attempt counters at
\* 1 and every optional workflow field unset.
C10_InitialRecord ==
    pc = "classify_ticket" =>
        /\ initial = state
        /\ RetrievalAttempt = Some(1)
        /\ DraftAttempt = Some(1)
        /\ \A k \in OptionalFields : Get(state, k, None) = None

\* C11: when Review returns passed = True at its k-th call (every earlier
\* call having returned False), k is 1, 2 or 3, draft_attempt is k, the
\* routing policy answers approved and the run ends at END with the record
\* unchanged: review_passed True, draft_attempt = k, escalated unset.
C11_FirstPassIsApproved ==
    /\ []((pc = "check_max_attempts" /\ ReviewPassed)
            => (reviews \in 1..MAX_ATTEMPTS /\ DraftAttempt = Some(reviews)))
    /\ [][(pc = "check_max_attempts" /\ ReviewPassed)
            => (pc' = "END" /\ decision' = "approved" /\ state' = state)]_vars
    /\ []((pc = "END" /\ ReviewPassed)
            => /\ decision = "approved"
               /\ DraftAttempt = Some(reviews)
               /\ Get(state, "escalated", None) = None)

\* a run approved at its third review
C11_Witness ==
    /\ pc = "END"
    /\ decision = "approved"
    /\ ReviewPassed
    /\ reviews = MAX_ATTEMPTS
    /\ DraftAttempt = Some(MAX_ATTEMPTS)
    /\ Get(state, "escalated", None) = None

\* C12: the record of a run that ended escalated has escalated True,
\* draft_attempt 3 and an escalation_message that holds the subject and the
\* last reviewer feedback.
C12_EscalatedRecord ==
    (pc = "END" /\ Escalated) =>
        /\ DraftAttempt = Some(MAX_ATTEMPTS)
        /\ "escalation_message" \in DOMAIN state
        /\ state["escalation_message"] # None
        /\ Val(state["escalation_message"]).subject = state["subject"]
        /\ Val(state["escalation_message"]).feedback = state["reviewer_feedback"]

\* C13: a run that ended escalated has had its row written to the
\* escalation log, and a run that ended approved has not touched the log.
C13_RecorderInvoked ==
    /\ (pc = "END" /\ Escalated) =>
            /\ csv_file # None
            /\ \E i \in DOMAIN Val(csv_file) : Val(csv_file)[i] = LogRow(state)
    /\ (pc = "END" /\ ReviewPassed) => csv_file = None

\* C14: when the log cannot be written, no call of the escalation handler
\* raises, and every call that finished returned escalated = True.
C14_RecorderFailureAbsorbed ==
    ~fsOk =>
        \A w \in DOMAIN escalations :
            /\ escalations[w].pc # "raised"
            /\ escalations[w].pc = "done" =>
                    /\ escalations[w].result # None
                    /\ Truthy(Val(escalations[w].result)["escalated"])

\* the rows of the log that are row
RowsEqualTo(row) ==
    {i \in DOMAIN Val(csv_file) : Val(csv_file)[i] = row}

\* C15: once every concurrent escalation has finished on a writable log, the
\* log is the header row followed by exactly one row per escalation.
C15_SerializedLog ==
    (fsOk /\ \A w \in DOMAIN escalations : escalations[w].pc = "done") =>
        /\ csv_file # None
        /\ Len(Val(csv_file)) = 1 + Cardinality(DOMAIN escalations)
        /\ RowsEqualTo(CsvHeader) = {1}
        /\ \A w \in DOMAIN escalations :
              Cardinality(RowsEqualTo(LogRow(escalations[w].state))) =
              Cardinality({v \in DOMAIN escalations :
                    LogRow(escalations[v].state) = LogRow(escalations[w].state)})

StageNodes ==
    {"classify_ticket", "rag_retrieval", "draft_response", "review_draft",
     "retry_rag", "retry_draft"}

\* C17: no node of the graph raises: a run that entered the graph goes on
\* from node to node and never ends with an exception.
C17_NoStageRaises ==
    /\ pc # "RAISED"
    /\ [][(pc \in StageNodes) => (pc' \in StageNodes \cup {"check_max_attempts"})]_vars

\* the text the Draft stage stored is the static fallback of the category
DraftIsFallback ==
    Get(state, "draft_response", None) =
        Some(_get_fallback_response(Val(state["classification"])))

\* C18: in a run whose draft completions all fail, every draft handed to
\* Review is the static fallback text of the ticket's category, Review is
\* called at most MAX_ATTEMPTS times and the run never ends with an
\* exception.
C18_FallbackSafety ==
    /\ pc = "review_draft" => DraftIsFallback
    /\ reviews <= MAX_ATTEMPTS
    /\ pc # "RAISED"

\* the reply has no DECISION line
NoDecision(reply) == \A i \in DOMAIN reply : reply[i].tag # "DECISION"

Booleans == {Some(TRUE), Some(FALSE)}

\* C19: whatever the completion service does, review_node returns a boolean
\* review_passed, and False with non-empty feedback on an error or a reply
\* without DECISION line; the record after a Review call holds the verdict
\* and feedback of that call.
C19_DefiniteReview ==
    /\ [](pc = "review_draft" =>
            \A completion \in ReviewCompletions :
                \E u \in {review_node(state, completion)} :
                    /\ "review_passed" \in DOMAIN u
                    /\ u["review_passed"] \in Booleans
                    /\ (completion.error \/ NoDecision(completion.reply)) =>
                            /\ u["review_passed"] = Some(FALSE)
                            /\ u["reviewer_feedback"] # None
                            /\ Len(Val(u["reviewer_feedback"])) > 0)
    /\ [][(pc = "review_draft" /\ pc' = "check_max_attempts") =>
            \E completion \in ReviewCompletions :
                \E r \in {review_draft(Val(state["subject"]), Val(state["description"]),
                                        Val(state["classification"]), state["draft_response"],
                                        DraftAttempt, completion)} :
                    /\ state'["review_passed"] = Some(r.approved)
                    /\ state'["reviewer_feedback"] = Some(r.feedback)]_vars
    /\ [](pc = "check_max_attempts" =>
            /\ Get(state, "review_passed", None) \in Booleans
            /\ Get(state, "reviewer_feedback", None) # None
            /\ Len(Val(state["reviewer_feedback"])) > 0)

\* the second review met a completion error after a first review that
\* rejected with feedback of its own
C19_Witness ==
    /\ pc = "check_max_attempts"
    /\ reviews = 2
    /\ Get(state, "review_passed", None) = Some(FALSE)
    /\ Get(state, "reviewer_feedback", None) = Some(TechnicalIssuesFeedback)

\* C20: in a run whose classifier fails, classification is general in every
\* state after Classify, Classify hands the run to Retrieve, and the run
\* never ends with an exception.
C20_ClassifyDegrades ==
    /\ pc \notin {"caller", "NOT_RUN", "classify_ticket"} =>
            Get(state, "classification", None) = Some("general")
    /\ pc # "RAISED"

\* the routing policy was evaluated on a record in which review_passed or
\* draft_attempt is absent or None
RequiredFieldMissing ==
    \/ Get(state, "review_passed", None) = None
    \/ Get(state, "draft_attempt", None) = None

\* C21: the routing policy evaluated on a record without review_passed or
\* without draft_attempt raises and the run ends as a failure; it answers
\* neither retry nor max_attempts_reached (nor approved).
C21_MissingFieldFails ==
    (Routed /\ RequiredFieldMissing) => (decision = "raise" /\ pc = "RAISED")

\* the caller's result reports an approved response
ApprovedResult(r) == r.success /\ Truthy(r.review_passed) /\ ~Truthy(r.escalated)

\* the caller's result reports an escalation
EscalationResult(r) == r.success /\ Truthy(r.escalated)

\* C22: what the caller receives is an approved response, an escalation
\* record or an explicit failure: a run that reached END is reported as a
\* success in which review_passed or escalated is True (never both, never
\* neither), a run that raised as a failure.
C22_ThreeOutcomes ==
    returned # None =>
        /\ pc \in {"END", "RAISED", "NOT_RUN"}
        /\ Val(returned).success <=> (pc = "END")
        /\ Val(returned).success =>
                (ApprovedResult(Val(returned)) \/ EscalationResult(Val(returned)))
        /\ ~(Truthy(Val(returned).review_passed) /\ Truthy(Val(returned).escalated))

\* run_single_ticket returned the summary of an approved run
C22_Witness ==
    /\ returned # None
    /\ caller = "main"
    /\ ApprovedResult(Val(returned))
    /\ pc = "END"

\* node b may run directly after node a
FollowsInOrder(a, b) ==
    \/ a = "classify_ticket" /\ b = "rag_retrieval"
    \/ a = "rag_retrieval"   /\ b = "draft_response"
    \/ a = "draft_response"  /\ b = "review_draft"
    \/ a = "review_draft"    /\ b \in {"retry_rag", "escalation"}
    \/ a = "retry_rag"       /\ b = "retry_draft"
    \/ a = "retry_draft"     /\ b = "review_draft"

\* C23: the nodes of a run execute one after the other: Classify first and
\* only once, then Retrieve, Draft, Review; between two Reviews exactly one
\* retry Retrieve followed by one retry Draft; and the graph is left at END
\* only directly after a Review routed to approved or directly after
\* Escalate.
C23_Sequential ==
    /\ (pc = "classify_ticket") <=> (path = <<>> /\ pc \notin {"caller", "NOT_RUN", "RAISED"})
    /\ Len(path) > 0 => path[1].node = "classify_ticket"
    /\ \A i \in 2..Len(path) :
            /\ path[i].node # "classify_ticket"
            /\ FollowsInOrder(path[i - 1].node, path[i].node)
    /\ pc = "END" =>
            /\ Len(path) > 0
            /\ \/ path[Len(path)].node = "escalation"
               \/ path[Len(path)].node = "review_draft" /\ decision = "approved"
    /\ (Len(path) > 0 /\ path[Len(path)].node = "escalation") => pc = "END"

\* a run that went through all three cycles and Escalate
C23_Witness ==
    /\ pc = "END"
    /\ Len(path) = 4 + 3 * (MAX_ATTEMPTS - 1) + 1
    /\ path[Len(path)].node = "escalation"

\* C24: every retry Retrieve and every retry Draft is handed the feedback
\* the directly preceding Review returned and that Review's attempt number
\* plus one; retry_rag_node retrieves with exactly these, and
\* retry_draft_node stores that attempt number.
C24_FeedbackHandedOn ==
    /\ [](\A i \in 1..Len(path) :
            /\ path[i].node = "retry_rag" =>
                  /\ i > 1
                  /\ path[i - 1].node = "review_draft"
                  /\ path[i].feedback_in = path[i - 1].feedback_out
                  /\ path[i].attempt = Some(Val(path[i - 1].attempt) + 1)
            /\ path[i].node = "retry_draft" =>
                  /\ i > 2
                  /\ path[i - 2].node = "review_draft"
                  /\ path[i].feedback_in = path[i - 2].feedback_out
                  /\ path[i].attempt = Some(Val(path[i - 2].attempt) + 1))
    /\ [][(pc = "retry_rag" /\ pc' = "retry_draft") =>
            /\ state'["retrieved_context"] =
                  Some(retrieve_context(Val(state["classification"]), Val(state["subject"]),
                                        Val(state["description"]),
                                        path'[Len(path')].feedback_in,
                                        path'[Len(path')].attempt))
            /\ state'["retrieval_attempt"] = path'[Len(path')].attempt]_vars
    /\ [][(pc = "retry_draft" /\ pc' = "review_draft") =>
            state'["draft_attempt"] = path'[Len(path')].attempt]_vars

\* the third Draft was handed the feedback of the second Review, which is
\* not the feedback of the first
C24_Witness ==
    /\ Len(path) >= 9
    /\ path[9].node = "retry_draft"
    /\ path[7].node = "review_draft"
    /\ path[9].feedback_in = path[7].feedback_out
    /\ path[7].feedback_out # path[4].feedback_out
    /\ path[9].attempt = Some(MAX_ATTEMPTS)

IsPrefix(a, b) == Len(a) <= Len(b) /\ SubSeq(b, 1, Len(a)) = a

EscalationMessage == Val(escalation_node(state)["escalation_message"])

\* C26: when Escalate runs, the message it builds holds the subject and the
\* description of the initial record, the classification, the draft and the
\* feedback of the last failed Review and that Review's attempt number (the
\* draft_attempt count, 3); it is determined by the record, and
\* escalation_node_with_logging builds the same message.
C26_EscalationMessage ==
    pc = "escalation" =>
        /\ path[Len(path)].node = "review_draft"
        /\ EscalationMessage.subject = initial["subject"]
        /\ EscalationMessage.description = initial["description"]
        /\ EscalationMessage.classification = state["classification"]
        /\ EscalationMessage.classification # None
        /\ EscalationMessage.failed_draft = state["draft_response"]
        /\ EscalationMessage.feedback = path[Len(path)].feedback_out
        /\ EscalationMessage.attempts = path[Len(path)].attempt
        /\ EscalationMessage.attempts = Some(MAX_ATTEMPTS)
        /\ EscalationMessage.attempts = DraftAttempt
        /\ escalation_node_with_logging(state)["escalation_message"] = Some(EscalationMessage)

\* Escalate is about to run after three failed reviews of a generated draft
C26_Witness ==
    /\ pc = "escalation"
    /\ reviews = MAX_ATTEMPTS
    /\ EscalationMessage.failed_draft \notin {None, Some("No draft generated")}
    /\ EscalationMessage.feedback \notin {None, Some(<<"No", "feedback", "available">>)}
    /\ EscalationMessage.feedback = state["reviewer_feedback"]
    /\ EscalationMessage.attempts = Some(MAX_ATTEMPTS)

\* C27: escalated turns True only in the step of escalation_node, which
\* leads to END; from then on no node runs and the record, the position
\* and the executed-node history stay as they are (escalated cannot turn
\* True a second time).
C27_EscalatedTerminal ==
    /\ [][(~Escalated /\ Escalated') => (pc = "escalation" /\ pc' = "END")]_vars
    /\ [][Escalated => (state' = state /\ pc' = pc /\ path' = path /\ pc = "END")]_vars

\* an escalated run has ended and its result was returned to the caller
C27_Witness ==
    /\ Escalated
    /\ pc = "END"
    /\ returned # None
    /\ path[Len(path)].node = "escalation"

\* the number of retry_draft entries among the first n entries of the path
RECURSIVE RetryDrafts(_)
RetryDrafts(n) ==
    IF n = 0 THEN 0
    ELSE RetryDrafts(n - 1) + (IF path[n].node = "retry_draft" THEN 1 ELSE 0)

\* C30: once the first Retrieve has run, draft_attempt is 1 plus the number
\* of retry_draft_node executions; the only steps that change it are
\* retry_draft_node (by one), the first Retrieve (which stores 1) and the
\* caller building the initial record.
C30_DraftAttemptAuthority ==
    /\ [](Len(path) >= 2 => DraftAttempt = Some(1 + RetryDrafts(Len(path))))
    /\ [][DraftAttempt' # DraftAttempt =>
            \/ pc = "retry_draft" /\ DraftAttempt' = Some(Val(DraftAttempt) + 1)
            \/ pc = "rag_retrieval" /\ DraftAttempt' = Some(1) /\ Len(path) = 1
            \/ pc = "caller"]_vars

\* the second retry_draft_node has run: draft_attempt went 1, 2, 3
C30_Witness ==
    /\ Len(path) >= 9
    /\ path[9].node = "retry_draft"
    /\ DraftAttempt = Some(3)
    /\ RetryDrafts(Len(path)) = 2

\* C28: format_context_for_prompt returns the sentinel text for an empty
\* list and nothing else for it; for a list of n > 0 documents it returns
\* the header followed by n entries, the i-th holding the number i, the
\* title and the content of the i-th document.
C28_FormatEmbedsAll ==
    pc = "formatted" =>
        LET documents == Val(state["retrieved_context"])
            text      == Val(state["formatted_context"])
        IN  /\ documents = <<>> => text = <<"No relevant documentation found.">>
            /\ documents # <<>> =>
                  /\ text # <<"No relevant documentation found.">>
                  /\ Len(text) = Len(documents) + 1
                  /\ \A i \in DOMAIN documents :
                        text[i + 1] = <<i, documents[i].title, documents[i].content>>

\* a list of three documents, not all the same, has been formatted
C28_Witness ==
    /\ pc = "formatted"
    /\ Len(Val(state["retrieved_context"])) = 3
    /\ Val(state["retrieved_context"])[1] # Val(state["retrieved_context"])[2]
    /\ Val(state["formatted_context"])[4][1] = 3

\* the words of the query retrieve_context was called with
QueryWords ==
    ToSet(Val(state["subject"])) \cup ToSet(Val(state["description"])) \cup
    (IF state["reviewer_feedback"] = None THEN {}
     ELSE ToSet(Val(state["reviewer_feedback"])))

\* the category retrieve_context searched
SearchedCategory ==
    IF Val(state["classification"]) \in DOMAIN KNOWLEDGE_BASE
    THEN Val(state["classification"]) ELSE "general"

\* no document of the category has a word in common with the query
NothingRelevant ==
    \A i \in DOMAIN KNOWLEDGE_BASE[SearchedCategory] :
        KNOWLEDGE_BASE[SearchedCategory][i].words \cap QueryWords = {}

\* C29: when no document of the searched category has a word in common
\* with subject, description and feedback, retrieve_context returns the
\* empty list.
C29_NothingFoundIsEmpty ==
    (pc = "format_context_for_prompt" /\ "classification" \in DOMAIN state /\ NothingRelevant)
        => Val(state["retrieved_context"]) = <<>>

MaxAttemptsReached == Truthy(Get(state, "max_attempts_reached", None))

\* C31: in every state max_attempts_reached and escalation_message are set
\* only if escalated is True; the only step that changes escalated or
\* max_attempts_reached is the step of escalation_node, whose update holds
\* escalated, max_attempts_reached and escalation_message together.
C31_SetOnlyWithEscalated ==
    /\ []((MaxAttemptsReached \/ Get(state, "escalation_message", None) # None) => Escalated)
    /\ [][(\/ Get(state', "escalated", None) # Get(state, "escalated", None)
           \/ Get(state', "max_attempts_reached", None) # Get(state, "max_attempts_reached", None)
           \/ Get(state', "escalation_message", None) # Get(state, "escalation_message", None))
          => /\ pc = "escalation"
             /\ {"escalated", "max_attempts_reached", "escalation_message"}
                    \subseteq DOMAIN escalation_node(state)
             /\ Escalated' /\ MaxAttemptsReached']_vars

\* Escalate has run: both flags are True
C31_Witness ==
    /\ pc = "END"
    /\ Escalated
    /\ MaxAttemptsReached
    /\ path[Len(path)].node = "escalation"

\* C32: whenever retrieved_context is stored, formatted_context is
\* format_context_for_prompt of it, and the two fields change only in the
\* steps of rag_retrieval_node and retry_rag_node.
C32_FormattedFromRetrieved ==
    /\ [](Get(state, "retrieved_context", None) # None =>
            Get(state, "formatted_context", None) =
                Some(format_context_for_prompt(Val(state["retrieved_context"]))))
    /\ [][(\/ Get(state', "retrieved_context", None) # Get(state, "retrieved_context", None)
           \/ Get(state', "formatted_context", None) # Get(state, "formatted_context", None))
          => pc \in {"rag_retrieval", "retry_rag"}]_vars

\* a retry Retrieve replaced two documents by three, and their text with them
C32_Witness ==
    /\ Len(path) >= 5
    /\ path[5].node = "retry_rag"
    /\ Len(Val(state["retrieved_context"])) = 3
    /\ Len(Val(state["formatted_context"])) = 4

\* C33: classification changes only in the step of classify_ticket_node,
\* which stores a category; every later node leaves it as it is, to the end
\* of the run.
C33_ClassifiedOnce ==
    /\ [][Get(state', "classification", None) # Get(state, "classification", None)
            => (pc = "classify_ticket" /\ Len(path) = 0)]_vars
    /\ [](Len(path) >= 1 =>
            Get(state, "classification", None) \in {Some(c) : c \in Categories})

\* an escalated run still holds the category Classify stored
C33_Witness ==
    /\ pc = "END"
    /\ Escalated
    /\ Get(state, "classification", None) = Some("security")

\* C34: from graph.invoke on, subject and description of the record are
\* those of the initial record, the ticket's; no step changes them.
C34_TicketImmutable ==
    /\ [](pc \notin {"caller", "NOT_RUN"} =>
            /\ state["subject"] = initial["subject"]
            /\ state["description"] = initial["description"]
            /\ state["subject"] = Some(ticket.subject)
            /\ state["description"] = Some(ticket.description))
    /\ [][pc \notin {"caller", "NOT_RUN"} =>
            /\ state'["subject"] = state["subject"]
            /\ state'["description"] = state["description"]]_vars

\* a run has ended after a retry with the ticket it started with
C34_Witness ==
    /\ pc = "END"
    /\ Len(path) >= 7
    /\ state["subject"] = Some(<<"refund">>)
    /\ state["description"] = Some(<<"charged", "twice">>)

\* the number of Retrieve executions (initial or retry) in a node history
Retrieves(p) == Cardinality({i \in DOMAIN p : p[i].node \in {"rag_retrieval", "retry_rag"}})

\* C35: the k-th Retrieve of a run stores the documents retrieve_context
\* returns for attempt k: the top 2 of the category at the first, the top 3
\* at the second, all the category's documents at the third.
C35_DocumentsFollowAttempt ==
    [][(pc \in {"rag_retrieval", "retry_rag"} /\ pc' \in {"draft_response", "retry_draft"}) =>
        LET k         == Retrieves(path')
            documents == Val(state'["retrieved_context"])
            category  == Val(state["classification"])
        IN  /\ Len(documents) = (IF k = 1 THEN 2 ELSE IF k = 2 THEN 3
                                  ELSE Len(KNOWLEDGE_BASE[category]))
            /\ documents = retrieve_context(category, Val(state["subject"]),
                                            Val(state["description"]),
                                            Get(state, "reviewer_feedback", None),
                                            Some(k))]_vars

\* the positions of the Review executions in the node history
ReviewPositions == {i \in DOMAIN path : path[i].node = "review_draft"}

\* C36: in every state with escalated True, review_passed is False,
\* draft_attempt is 3 and exactly three Reviews have run, at attempts 1, 2
\* and 3, each of them followed by a retry or by Escalate (none passed).
C36_EscalatedAfterExhaustion ==
    Escalated =>
        /\ Get(state, "review_passed", None) = Some(FALSE)
        /\ DraftAttempt = Some(MAX_ATTEMPTS)
        /\ reviews = MAX_ATTEMPTS
        /\ Cardinality(ReviewPositions) = MAX_ATTEMPTS
        /\ {path[i].attempt : i \in ReviewPositions} = {Some(n) : n \in 1..MAX_ATTEMPTS}
        /\ \A i \in ReviewPositions :
                /\ i < Len(path)
                /\ path[i + 1].node \in {"retry_rag", "escalation"}
                /\ path[i + 1].node = "escalation" <=> path[i].attempt = Some(MAX_ATTEMPTS)

\* an escalated run: its third Review was the last node before Escalate
C36_Witness ==
    /\ Escalated
    /\ Cardinality(ReviewPositions) = MAX_ATTEMPTS
    /\ path[Len(path) - 1].node = "review_draft"
    /\ path[Len(path) - 1].attempt = Some(MAX_ATTEMPTS)

\* C37: every Review is preceded by a Draft that was handed the same
\* attempt number as the Review, and that number is the index of the cycle
\* (the number of Reviews so far); the step of review_node leaves
\* draft_attempt unchanged.
C37_SameAttemptInCycle ==
    /\ [](\A i \in ReviewPositions :
            /\ i > 1
            /\ path[i - 1].node \in {"draft_response", "retry_draft"}
            /\ path[i - 1].attempt = path[i].attempt
            /\ path[i].attempt = Some(Cardinality({j \in ReviewPositions : j <= i})))
    /\ [][pc = "review_draft" => DraftAttempt' = DraftAttempt]_vars

\* C38: process_ticket answers a ticket whose subject or description is
\* blank with status 400 and the detail "Subject and description are
\* required", without invoking the graph; it answers 500 only when the
\* graph was invoked and processing failed.
C38_BlankIsBadRequest ==
    (caller = "api" /\ returned # None) =>
        /\ (Blank(ticket.subject) \/ Blank(ticket.description)) =>
                /\ Val(returned).status = Some(400)
                /\ Val(returned).detail = Some("Subject and description are required")
                /\ pc = "NOT_RUN"
                /\ path = <<>>
        /\ Val(returned).status = Some(500) =>
                /\ ~(Blank(ticket.subject) \/ Blank(ticket.description))
                /\ pc \in {"RAISED", "END"}

\* the positions of the DECISION lines of the parsed reply
DecisionPositions ==
    {i \in DOMAIN script["review_result"] : script["review_result"][i].tag = "DECISION"}

\* the DECISION line that is judged: the last one of the reply
JudgedDecision ==
    script["review_result"][CHOOSE i \in DecisionPositions :
                                \A j \in DecisionPositions : j <= i].text

\* C39: a parsed reply is approved only if it has a DECISION line and the
\* decision of its last DECISION line is APPROVED; if that decision begins
\* with REJECTED, whatever follows on the line, review_passed is False; and
\* the verdict is the verdict of the reply made of that one line.
C39_ApprovedOnlyWhenApproved ==
    pc = "parsed" =>
        /\ ReviewPassed => (DecisionPositions # {} /\ JudgedDecision[1] = "APPROVED")
        /\ (DecisionPositions # {} /\ JudgedDecision[1] = "REJECTED") => ~ReviewPassed
        /\ DecisionPositions # {} =>
                ReviewPassed = _parse_review_result(
                    <<[tag |-> "DECISION", text |-> JudgedDecision]>>).approved

====
